---- MODULE Spec2Model ----
(***************************************************************************)
(* DFI PHY model settings of litex/tools/litex_sim.py.                     *)
(*                                                                         *)
(* get_sdram_phy_settings(memtype, data_width, clk_freq) derives the       *)
(* PhySettings record handed to SDRAMPHYModel.  The module models the      *)
(* module-level table sdram_module_nphases, the function, and the          *)
(* litedram.common helpers it calls (get_cl_cw, get_sys_latency,           *)
(* get_sys_phases).  The helpers live outside litex_sim.py: they are       *)
(* modelled as interchangeable collaborators, fixed for a whole behaviour  *)
(* and chosen in Init among a few tables and rounding policies.            *)
(***************************************************************************)
EXTENDS Integers, Sequences, FiniteSets, TLC

\* ---------------------------------------------------------------- bounds
\* clk_freq ranges over -MaxFreq..MaxFreq (zero and negative included)
MaxFreq == 2
\* data_width ranges over 8, 16, ..., 8*MaxWidthUnits
MaxWidthUnits == 2

ClkFreqs   == (0 - MaxFreq)..MaxFreq
DataWidths == {8 * k : k \in 1..MaxWidthUnits}

\* ------------------------------------------------------------ memory types
SupportedMemtypes == {"SDR", "DDR", "LPDDR", "DDR2", "DDR3", "DDR4"}
\* memtype strings a caller may pass that sdram_module_nphases does not have
OtherMemtypes     == {"DDR5", "sdr"}
Memtypes          == SupportedMemtypes \cup OtherMemtypes

\* Python's None (cwl of the SDR, DDR and LPDDR settings), and an integer
\* held in the same field
None    == <<>>
Some(v) == <<v>>

VARIABLES
    sdram_module_nphases,  \* the module-level dict memtype -> nphases
    cas_table,             \* which CAS-latency table get_cl_cw holds
    rounding,              \* which rounding policy the phase arithmetic uses
    call,                  \* arguments of the last invocation
    result,                \* its outcome: a returned record or a raised error
    helpers,               \* the helpers it called, in call order
    memo                   \* one earlier invocation, remembered with its outcome

vars == <<sdram_module_nphases, cas_table, rounding, call, result, helpers, memo>>

\* the table with the DDR2 row given the DDR3 phase count
NphasesTable_ddr2_as_ddr3 ==
    [m \in SupportedMemtypes |->
        CASE m = "SDR"   -> 1
          [] m = "DDR"   -> 2
          [] m = "LPDDR" -> 2
          [] m = "DDR2"  -> 4
          [] m = "DDR3"  -> 4
          [] m = "DDR4"  -> 4]

\* litex_sim.py:69-76
NphasesTable ==
    [m \in SupportedMemtypes |->
        CASE m = "SDR"   -> 1
          [] m = "DDR"   -> 2
          [] m = "LPDDR" -> 2
          [] m = "DDR2"  -> 2
          [] m = "DDR3"  -> 4
          [] m = "DDR4"  -> 4]

\* ------------------------------------------------- external collaborators
\* CAS-latency tables: per memtype a sequence of <<f, cl, cwl>> rows, f the
\* highest memory clock frequency the row serves (frequency unit of clk_freq)
CasTables == {"table_a", "table_b"}
Roundings == {"ceil", "floor1"}

CasRows(t, memtype) ==
    IF t = "table_a"
    THEN CASE memtype = "DDR2" -> << <<4, 3, 2>> >>
           [] memtype = "DDR3" -> << <<8, 6, 5>>, <<16, 7, 6>> >>
           [] memtype = "DDR4" -> << <<8, 11, 9>> >>
           [] OTHER            -> << >>
    ELSE CASE memtype = "DDR2" -> << <<4, 5, 5>>, <<12, 6, 4>> >>
           [] memtype = "DDR3" -> << <<8, 9, 10>> >>
           [] memtype = "DDR4" -> << <<8, 12, 10>>, <<24, 13, 13>> >>
           [] OTHER            -> << >>

NoEntry == <<>>

\* tck is the exact quotient num/den kept as <<num, den>>, den # 0.
\* A row <<f, cl, cwl>> serves tck when tck >= 2/f.
RowServes(row, tck) == tck[2] > 0 /\ tck[2] * 2 <= row[1] * tck[1]

\* get_cl_cw(memtype, tck): <<cl, cwl>> of the first row that serves tck,
\* NoEntry (the lookup raises) when no row does
get_cl_cw(memtype, tck) ==
    LET rows == CasRows(cas_table, memtype)
        hits == {i \in 1..Len(rows) : RowServes(rows[i], tck)}
    IN  IF hits = {} THEN NoEntry
        ELSE LET i == CHOOSE j \in hits : \A k \in hits : j <= k
             IN  <<rows[i][2], rows[i][3]>>

\* get_sys_latency(nphases, cas_latency): system-clock cycles covering
\* cas_latency memory-clock cycles
get_sys_latency(nphases, cas_latency) ==
    IF rounding = "ceil"
    THEN (cas_latency + nphases - 1) \div nphases
    ELSE (cas_latency \div nphases) + 1

\* get_sys_phases(nphases, sys_latency, cas_latency): <<cmd_phase, dat_phase>>
get_sys_phases(nphases, sys_latency, cas_latency) ==
    LET dat_phase == sys_latency * nphases - cas_latency
        cmd_phase == (dat_phase - 1) % nphases
    IN  <<cmd_phase, dat_phase>>

\* ----------------------------------------------------------- outcomes
\* An outcome is a returned value or a raised exception, with the helpers
\* called on the way.  value holds the returned value when there is one.
Return(v, hs)  == [kind |-> "return", exc |-> "",  value |-> Some(v), helpers |-> hs]
Raise(exc, hs) == [kind |-> "raise",  exc |-> exc, value |-> None,    helpers |-> hs]
\* before any invocation
NoCall    == [memtype |-> "", data_width |-> 0, clk_freq |-> 0]
NoOutcome == [kind |-> "none", exc |-> "", value |-> None]

\* ------------------------------------------- get_sdram_phy_settings branches
\* gensdrphy with cwl set to 0 instead of None
gensdrphy_cwl_zero ==
    Return([rdphase       |-> 0,
            wrphase       |-> 0,
            rdcmdphase    |-> 0,
            wrcmdphase    |-> 0,
            cl            |-> 2,
            cwl           |-> Some(0),
            read_latency  |-> 4,
            write_latency |-> 0], <<>>)

\* litex_sim.py:81-90, "Settings from gensdrphy"
gensdrphy ==
    Return([rdphase       |-> 0,
            wrphase       |-> 0,
            rdcmdphase    |-> 0,
            wrcmdphase    |-> 0,
            cl            |-> 2,
            cwl           |-> None,
            read_latency  |-> 4,
            write_latency |-> 0], <<>>)

\* s6ddrphy with the read latency of gensdrphy
s6ddrphy_sdr_latency ==
    Return([rdphase       |-> 0,
            wrphase       |-> 1,
            rdcmdphase    |-> 1,
            wrcmdphase    |-> 0,
            cl            |-> 3,
            cwl           |-> None,
            read_latency  |-> 4,
            write_latency |-> 0], <<>>)

\* litex_sim.py:91-100, "Settings from s6ddrphy"
s6ddrphy ==
    Return([rdphase       |-> 0,
            wrphase       |-> 1,
            rdcmdphase    |-> 1,
            wrcmdphase    |-> 0,
            cl            |-> 3,
            cwl           |-> None,
            read_latency  |-> 5,
            write_latency |-> 0], <<>>)

\* the usddrphy branch keeping the s7ddrphy formula
read_latency_of_s7_only(memtype, cl_sys_latency) ==
    2 + cl_sys_latency + 2 + 3

\* litex_sim.py:111 and 123: read_latency of the s7ddrphy (DDR2, DDR3) and
\* usddrphy (DDR4) settings
read_latency_of(memtype, cl_sys_latency) ==
    IF memtype = "DDR4"
    THEN 2 + cl_sys_latency + 1 + 3
    ELSE 2 + cl_sys_latency + 2 + 3

\* litex_sim.py:112 and 124
write_latency_of(cwl_sys_latency) == cwl_sys_latency

\* litex_sim.py:109 and 121: rdcmdphase, rdphase
read_phases(nphases, cl, cwl, cl_sys_latency, cwl_sys_latency) ==
    get_sys_phases(nphases, cl_sys_latency, cl)

\* the write phases derived from cl instead of cwl
write_phases_from_cl(nphases, cl, cwl, cl_sys_latency, cwl_sys_latency) ==
    get_sys_phases(nphases, cwl_sys_latency, cl)

\* litex_sim.py:110 and 122: wrcmdphase, wrphase
write_phases(nphases, cl, cwl, cl_sys_latency, cwl_sys_latency) ==
    get_sys_phases(nphases, cwl_sys_latency, cwl)

\* a lookup failure answered with default settings instead of the error
on_no_entry_default(memtype, nphases) ==
    Return([rdphase       |-> 0,
            wrphase       |-> 0,
            rdcmdphase    |-> 0,
            wrcmdphase    |-> 0,
            cl            |-> 0,
            cwl           |-> Some(0),
            read_latency  |-> 0,
            write_latency |-> 0], <<"get_cl_cw">>)

\* litex_sim.py:105 and 117: what happens when get_cl_cw has no entry; the
\* function has no handler, the lookup's error leaves it
on_no_entry(memtype, nphases) == Raise("ValueError", <<"get_cl_cw">>)

\* a divisor that replaces a zero clk_freq by 1
tck_divisor_guarded(nphases, clk_freq) ==
    2 * nphases * (IF clk_freq = 0 THEN 1 ELSE clk_freq)

\* litex_sim.py:103 and 115: tck = 2/(2*nphases*clk_freq); the division
\* raises when the divisor is zero
tck_divisor(nphases, clk_freq) == 2 * nphases * clk_freq

\* litex_sim.py:101-124, the branches that compute from clk_freq
\* ("Settings from s7ddrphy", "Settings from usddrphy")
explicit_cl_cwl(memtype, nphases, clk_freq) ==
    IF tck_divisor(nphases, clk_freq) = 0
    THEN Raise("ZeroDivisionError", <<>>)
    ELSE
      LET tck         == <<2, tck_divisor(nphases, clk_freq)>>
          cmd_latency == 0
          entry       == get_cl_cw(memtype, tck)
      IN  IF entry = NoEntry
          THEN on_no_entry(memtype, nphases)
          ELSE
            LET cl              == entry[1]
                cl_sys_latency  == get_sys_latency(nphases, cl)
                cwl             == entry[2] + cmd_latency
                cwl_sys_latency == get_sys_latency(nphases, cwl)
                rd == read_phases(nphases, cl, cwl, cl_sys_latency, cwl_sys_latency)
                wr == write_phases(nphases, cl, cwl, cl_sys_latency, cwl_sys_latency)
            IN  Return([rdphase       |-> rd[2],
                        wrphase       |-> wr[2],
                        rdcmdphase    |-> rd[1],
                        wrcmdphase    |-> wr[1],
                        cl            |-> cl,
                        cwl           |-> Some(cwl),
                        read_latency  |-> read_latency_of(memtype, cl_sys_latency),
                        write_latency |-> write_latency_of(cwl_sys_latency)],
                       <<"get_cl_cw", "get_sys_latency", "get_sys_latency",
                         "get_sys_phases", "get_sys_phases">>)

\* dfi_databits doubled for every memtype
dfi_databits_of_doubled(memtype, data_width) == 2 * data_width

\* litex_sim.py:141
dfi_databits_of(memtype, data_width) ==
    IF memtype = "SDR" THEN data_width ELSE 2 * data_width

\* a lookup with a default (dict.get(memtype, 1)) instead of the KeyError
lookup_nphases_default(memtype) ==
    IF memtype \in DOMAIN sdram_module_nphases
    THEN Some(sdram_module_nphases[memtype])
    ELSE Some(1)

\* a lookup that reuses the phase count of the previous returned record
lookup_nphases_cached(memtype) ==
    IF memtype \notin DOMAIN sdram_module_nphases
    THEN None
    ELSE IF result.kind = "return"
         THEN Some(result.value[1].nphases)
         ELSE Some(sdram_module_nphases[memtype])

\* litex_sim.py:79: nphases = sdram_module_nphases[memtype]; None stands for
\* the KeyError of a memtype the dict does not have
lookup_nphases(memtype) ==
    IF memtype \in DOMAIN sdram_module_nphases
    THEN Some(sdram_module_nphases[memtype])
    ELSE None

\* litex_sim.py:126-143: the PhySettings record
PhySettings(memtype, data_width, nphases, s) ==
    [memtype       |-> memtype,
     databits      |-> data_width,
     dfi_databits  |-> dfi_databits_of(memtype, data_width),
     nphases       |-> nphases,
     rdphase       |-> s.rdphase,
     wrphase       |-> s.wrphase,
     rdcmdphase    |-> s.rdcmdphase,
     wrcmdphase    |-> s.wrcmdphase,
     cl            |-> s.cl,
     cwl           |-> s.cwl,
     read_latency  |-> s.read_latency,
     write_latency |-> s.write_latency]

\* litex_sim.py:81-124: the if/elif chain.  It has no else: a memtype that
\* matches no test leaves rdphase unbound and line 128 raises.
settings_of(memtype, nphases, clk_freq) ==
    CASE memtype = "SDR"              -> gensdrphy
      [] memtype \in {"DDR", "LPDDR"} -> s6ddrphy
      [] memtype \in {"DDR2", "DDR3"} -> explicit_cl_cwl(memtype, nphases, clk_freq)
      [] memtype = "DDR4"             -> explicit_cl_cwl(memtype, nphases, clk_freq)
      [] OTHER                        -> Raise("UnboundLocalError", <<>>)

\* litex_sim.py:78-143
get_sdram_phy_settings(memtype, data_width, clk_freq) ==
    IF lookup_nphases(memtype) = None
    THEN Raise("KeyError", <<>>)
    ELSE
      LET nphases == lookup_nphases(memtype)[1]
          branch  == settings_of(memtype, nphases, clk_freq)
      IN  IF branch.kind = "raise"
          THEN branch
          ELSE Return(PhySettings(memtype, data_width, nphases, branch.value[1]),
                      branch.helpers)

\* ------------------------------------------------------------ the machine
Init ==
    /\ sdram_module_nphases = NphasesTable
    /\ cas_table \in CasTables
    /\ rounding \in Roundings
    /\ call = NoCall
    /\ result = NoOutcome
    /\ helpers = <<>>
    /\ memo = [call |-> NoCall, result |-> NoOutcome]

\* One invocation of get_sdram_phy_settings by some configuration context.
\* The function only reads sdram_module_nphases and the collaborators.  memo
\* keeps either what it held or the invocation before this one, so that any
\* two invocations of a behaviour can be compared.
Call(memtype, data_width, clk_freq) ==
    LET args == [memtype |-> memtype, data_width |-> data_width, clk_freq |-> clk_freq]
        out  == get_sdram_phy_settings(memtype, data_width, clk_freq)
    IN  /\ call' = args
        /\ result' = [kind |-> out.kind, exc |-> out.exc, value |-> out.value]
        /\ helpers' = out.helpers
        /\ \/ memo' = memo
           \/ memo' = [call |-> call, result |-> result]
        /\ UNCHANGED <<sdram_module_nphases, cas_table, rounding>>

Next ==
    \E memtype \in Memtypes, data_width \in DataWidths, clk_freq \in ClkFreqs :
        Call(memtype, data_width, clk_freq)

Spec == Init /\ [][Next]_vars

\* ================================================================ properties
Invoked  == result.kind # "none"
Returned == result.kind = "return"
Raised   == result.kind = "raise"
\* the returned PhySettings record
Rec      == result.value[1]

FixedClasses    == {"SDR", "DDR", "LPDDR"}
ExplicitClasses == {"DDR2", "DDR3", "DDR4"}

\* the phase counts the documentation gives per memory class
PhaseCount(m) ==
    CASE m = "SDR"                      -> 1
      [] m \in {"DDR", "LPDDR", "DDR2"} -> 2
      [] m \in {"DDR3", "DDR4"}         -> 4
      [] OTHER                          -> 0

\* the table entry for the last invocation's memory clock period
\* (meaningful when its class is explicit and clk_freq # 0)
Entry    == get_cl_cw(call.memtype, <<2, 2 * PhaseCount(call.memtype) * call.clk_freq>>)
HasEntry == call.memtype \in ExplicitClasses /\ call.clk_freq # 0 /\ Entry # NoEntry
TableCL  == Entry[1]
TableCWL == Entry[2] + 0
ClSysLatency  == get_sys_latency(PhaseCount(call.memtype), TableCL)
CwlSysLatency == get_sys_latency(PhaseCount(call.memtype), TableCWL)

\* C1 (as stated): for DDR and LPDDR, whatever the data width and the clock
\* frequency, the record has read command phase 0, write command phase 1,
\* read data phase 1, write data phase 0, CL 3, CWL undefined, read latency 5
\* and write latency 0.
C1_AsStated ==
    (Invoked /\ call.memtype \in {"DDR", "LPDDR"}) =>
        /\ Returned
        /\ Rec.rdcmdphase = 0
        /\ Rec.wrcmdphase = 1
        /\ Rec.rdphase = 1
        /\ Rec.wrphase = 0
        /\ Rec.cl = 3
        /\ Rec.cwl = None
        /\ Rec.read_latency = 5
        /\ Rec.write_latency = 0

\* C1 (amended): for DDR and LPDDR, whatever the data width and the clock
\* frequency, the record has read command phase 1, write command phase 0,
\* read data phase 0, write data phase 1, CL 3, CWL undefined, read latency 5
\* and write latency 0.
C1_DdrConstants ==
    (Invoked /\ call.memtype \in {"DDR", "LPDDR"}) =>
        /\ Returned
        /\ Rec.rdcmdphase = 1
        /\ Rec.wrcmdphase = 0
        /\ Rec.rdphase = 0
        /\ Rec.wrphase = 1
        /\ Rec.cl = 3
        /\ Rec.cwl = None
        /\ Rec.read_latency = 5
        /\ Rec.write_latency = 0

C1_Witness ==
    /\ call.memtype = "LPDDR" /\ call.clk_freq < 0 /\ call.data_width = 16
    /\ Returned /\ Rec.read_latency = 5 /\ Rec.rdcmdphase = 1

\* C2: for SDR, whatever the data width and the clock frequency, the record
\* has phase count 1, the four phases 0, CL 2, CWL undefined (not 0), read
\* latency 4 and write latency 0, and no helper was called.
C2_SdrConstants ==
    (Invoked /\ call.memtype = "SDR") =>
        /\ Returned
        /\ Rec.nphases = 1
        /\ Rec.rdcmdphase = 0
        /\ Rec.wrcmdphase = 0
        /\ Rec.rdphase = 0
        /\ Rec.wrphase = 0
        /\ Rec.cl = 2
        /\ Rec.cwl = None
        /\ Rec.cwl # Some(0)
        /\ Rec.read_latency = 4
        /\ Rec.write_latency = 0
        /\ helpers = <<>>

C2_Witness ==
    /\ call.memtype = "SDR" /\ call.clk_freq = 0 /\ call.data_width = 8
    /\ Returned /\ Rec.cl = 2 /\ helpers = <<>>

\* C3: for DDR2, DDR3 and DDR4, when the table has an entry, the write
\* latency is get_sys_latency(nphases, CWL) with nothing added and the read
\* latency is get_sys_latency(nphases, CL) plus 7 (DDR2, DDR3) or 6 (DDR4).
C3_Latencies ==
    (Invoked /\ HasEntry) =>
        /\ Returned
        /\ Rec.write_latency = CwlSysLatency
        /\ Rec.read_latency =
              ClSysLatency + (IF call.memtype = "DDR4" THEN 6 ELSE 7)

C3_Witness ==
    /\ HasEntry /\ call.memtype = "DDR4" /\ Returned
    /\ Rec.read_latency = ClSysLatency + 6
    /\ ClSysLatency # CwlSysLatency

\* C4: in every returned record dfi_databits is data_width for SDR and twice
\* data_width for every other class, and memtype and databits are the inputs.
C4_DfiDatabits ==
    Returned =>
        /\ Rec.dfi_databits =
              (IF call.memtype = "SDR" THEN call.data_width ELSE 2 * call.data_width)
        /\ Rec.memtype = call.memtype
        /\ Rec.databits = call.data_width

C4_Witness ==
    /\ Returned /\ call.memtype = "SDR" /\ call.data_width = 16
    /\ Rec.dfi_databits = 16
    /\ memo.result.kind = "return" /\ memo.call.memtype = "DDR3"
    /\ memo.result.value[1].dfi_databits = 2 * memo.call.data_width

\* C5: the phase count of a returned record is positive and set by the class
\* alone (SDR 1; DDR, LPDDR, DDR2 2; DDR3, DDR4 4): two invocations with the
\* same class return the same phase count whatever the widths and frequencies.
C5_PhaseCount ==
    Returned =>
        /\ Rec.nphases = PhaseCount(call.memtype)
        /\ Rec.nphases > 0
        /\ (memo.result.kind = "return" /\ memo.call.memtype = call.memtype)
              => memo.result.value[1].nphases = Rec.nphases

C5_Witness ==
    /\ Returned /\ memo.result.kind = "return"
    /\ call.memtype = "DDR2" /\ memo.call.memtype = "DDR2"
    /\ memo.call.data_width # call.data_width
    /\ memo.call.clk_freq # call.clk_freq
    /\ Rec.nphases = 2

C7_UnsupportedClass ==
    (Invoked /\ call.memtype \notin SupportedMemtypes) =>
        /\ Raised
        /\ result.exc = "KeyError"
        /\ result.value = None
        /\ helpers = <<>>

C7_Witness ==
    /\ call.memtype = "DDR5" /\ call.clk_freq > 0
    /\ Raised /\ result.exc = "KeyError" /\ helpers = <<>>

\* C8: for DDR2, DDR3 and DDR4, when the table has no entry for the computed
\* memory clock period, the invocation fails with the lookup's error and
\* returns no record, so no partial or default value.
C8_NoEntry ==
    (Invoked /\ call.memtype \in ExplicitClasses /\ call.clk_freq # 0
             /\ Entry = NoEntry) =>
        /\ Raised
        /\ result.exc = "ValueError"
        /\ result.value = None

C8_Witness ==
    /\ call.memtype = "DDR3" /\ call.clk_freq > 0 /\ Entry = NoEntry
    /\ Raised /\ result.exc = "ValueError" /\ helpers = <<"get_cl_cw">>

\* C9: two invocations with the same memtype, data width and clock
\* frequency, with any invocations between them, have the same outcome (the
\* same record, or the same failure), and sdram_module_nphases is what it was
\* at import.
C9_Deterministic ==
    /\ (Invoked /\ memo.result.kind # "none" /\ memo.call = call)
          => memo.result = result
    /\ sdram_module_nphases = NphasesTable

C9_Witness ==
    /\ Returned /\ memo.call = call /\ memo.result = result
    /\ call.memtype = "DDR3" /\ HasEntry

\* C10: for DDR2, DDR3 and DDR4, (rdcmdphase, rdphase) is
\* get_sys_phases(nphases, cl_sys_latency, CL) and (wrcmdphase, wrphase) is
\* get_sys_phases(nphases, cwl_sys_latency, CWL), command phase first, CWL
\* being the table value plus 0 and the cwl of the record.
C10_Phases ==
    (Invoked /\ HasEntry) =>
        /\ Returned
        /\ <<Rec.rdcmdphase, Rec.rdphase>> =
              get_sys_phases(PhaseCount(call.memtype), ClSysLatency, TableCL)
        /\ <<Rec.wrcmdphase, Rec.wrphase>> =
              get_sys_phases(PhaseCount(call.memtype), CwlSysLatency, TableCWL)
        /\ Rec.cl = TableCL
        /\ Rec.cwl = Some(TableCWL)

C10_Witness ==
    /\ HasEntry /\ call.memtype = "DDR2" /\ Returned
    /\ TableCL # TableCWL
    /\ <<Rec.rdcmdphase, Rec.rdphase>> # <<Rec.wrcmdphase, Rec.wrphase>>
    /\ Rec.rdcmdphase # Rec.rdphase

====
